---- MODULE Spec2Model ----
(***************************************************************************)
(* Model of streamlit_app.py: the batch prompt-execution engine of the     *)
(* "AI Excel Processor".  A script run renders one prompt per row of the   *)
(* active sheet, sends it through a process-wide prompt cache to the chat  *)
(* service on a thread pool, and the script thread writes the answers back *)
(* into the result column, the log and the list of failed rows.            *)
(*                                                                         *)
(* Text is modelled as a sequence of one-character strings, so that the    *)
(* regular expression, str.replace, str.strip and str.startswith are       *)
(* computed as Python computes them.                                       *)
(*                                                                         *)
(* Streamlit runs the script from the top on every interaction: each       *)
(* script run reads the widgets (the prompt text and the pause are inputs  *)
(* of a run request), loads the table afresh from the uploaded bytes and   *)
(* keeps only st.session_state and the cached resources of the previous    *)
(* one.  The Stop button is modelled as an asynchronous write of           *)
(* st.session_state.stop_flag that can land at any moment of a run.        *)
(***************************************************************************)
EXTENDS Integers, Sequences, FiniteSets, TLC

\* ---------------------------------------------------------------- bounds
NRows == 2            \* rows of every sheet of the uploaded workbook
MaxRuns == 2          \* full/test runs started in one session

\* ------------------------------------------------------- program constants
TestRows == 5         \* df.index[:5]
NoneProcessed == 0 - 1  \* last_processed = -1

\* ------------------------------------------------------------------ text
Hash == "#"
Space == " "

StartsWith(s, prefix) ==
    /\ Len(s) >= Len(prefix)
    /\ SubSeq(s, 1, Len(prefix)) = prefix

RECURSIVE LStrip(_)
LStrip(s) ==
    IF s # <<>> /\ Head(s) = Space THEN LStrip(Tail(s)) ELSE s

RECURSIVE RStrip(_)
RStrip(s) ==
    IF s # <<>> /\ s[Len(s)] = Space THEN RStrip(SubSeq(s, 1, Len(s) - 1)) ELSE s

\* str.strip()
Strip(s) == RStrip(LStrip(s))

RECURSIVE NextHash(_, _)
\* index of the first "#" of s at or after position p, 0 when there is none
NextHash(s, p) ==
    IF p > Len(s) THEN 0
    ELSE IF s[p] = Hash THEN p
    ELSE NextHash(s, p + 1)

RECURSIVE FindAllFrom(_, _)
\* re.findall(r"#([^#]+)#", s), scanning from position p
FindAllFrom(s, p) ==
    IF p > Len(s) THEN <<>>
    ELSE IF /\ s[p] = Hash
            /\ p + 1 <= Len(s)
            /\ s[p + 1] # Hash
            /\ NextHash(s, p + 1) # 0
         THEN <<SubSeq(s, p + 1, NextHash(s, p + 1) - 1)>>
                  \o FindAllFrom(s, NextHash(s, p + 1) + 1)
         ELSE FindAllFrom(s, p + 1)

FindAll(s) == FindAllFrom(s, 1)

RECURSIVE Replace(_, _, _)
\* s.replace(old, new) for a non-empty old: leftmost non-overlapping occurrences
Replace(s, old, new) ==
    IF Len(s) < Len(old) THEN s
    ELSE IF SubSeq(s, 1, Len(old)) = old
         THEN new \o Replace(SubSeq(s, Len(old) + 1, Len(s)), old, new)
         ELSE <<Head(s)>> \o Replace(Tail(s), old, new)

RECURSIVE Join(_, _)
\* sep.join(parts)
Join(sep, parts) ==
    IF parts = <<>> THEN <<>>
    ELSE IF Len(parts) = 1 THEN Head(parts)
    ELSE Head(parts) \o sep \o Join(sep, Tail(parts))

DigitChars == <<"0", "1", "2", "3", "4", "5", "6", "7", "8", "9">>

RECURSIVE StrInt(_)
\* str(n) for a non-negative integer
StrInt(n) ==
    IF n < 10 THEN <<DigitChars[n + 1]>>
    ELSE StrInt(n \div 10) \o <<DigitChars[(n % 10) + 1]>>


\* ------------------------------------------------- the uploaded workbook
NullCell == [kind |-> "null"]
StrCell(s) == [kind |-> "str", v |-> s]
IntCell(n) == [kind |-> "int", v |-> n]

ColN == <<"N">>
ColC == <<"C">>

\* wb.sheetnames of the uploaded file
SheetNames == <<"S1", "S2", "S3">>

\* df.index of a loaded sheet (a RangeIndex)
Rows == 0 .. (NRows - 1)

\* the header row of a sheet
Columns(sht) == IF sht = "S3" THEN <<ColN>> ELSE <<ColN, ColC>>

\* the data row i of a sheet, as pd.read_excel returns it
SheetRow(sht, i) ==
    CASE sht = "S1" ->
           CASE i % 3 = 0 -> (ColN :> StrCell(<<"#", "C", "#">>)) @@ (ColC :> StrCell(<<"z">>))
             [] i % 3 = 1 -> (ColN :> StrCell(<<" ", "b">>)) @@ (ColC :> NullCell)
             [] OTHER     -> (ColN :> StrCell(<<"a">>)) @@ (ColC :> StrCell(<<"z">>))
      [] sht = "S2" ->
           IF i % 2 = 0
           THEN (ColN :> IntCell(7)) @@ (ColC :> StrCell(<<"z">>))
           ELSE (ColN :> StrCell(<<"a">>)) @@ (ColC :> NullCell)
      [] OTHER -> (ColN :> StrCell(<<"a">>))

\* the name of the result column ("Réponse IA")
output_col == <<"R">>

\* prompt texts the user types into the text area
Templates ==
    { <<>>,
      <<"#", "N", "#", "#", "C", "#">>,
      <<"#", "X", "#", "N", "#", "Y", "#">> }

\* values of the "Pause entre requêtes (s)" input, in tenths of a second
RateChoices == {0, 5}
DefaultRate == 10

\* ------------------------------------------------------- template engine
\* placeholders = re.findall(r"#([^#]+)#", prompt_tpl)
Placeholders(tpl) == FindAll(tpl)

InCols(c, cols) == \E k \in 1 .. Len(cols) : cols[k] = c

\* invalid = [c for c in placeholders if c not in df.columns]
Invalid(tpl, cols) == SelectSeq(Placeholders(tpl), LAMBDA c : ~InCols(c, cols))

\* "" if pd.isna(v) else str(v)
CellText(v) ==
    CASE v.kind = "null" -> <<>>
      [] v.kind = "int"  -> StrInt(v.v)
      [] OTHER           -> v.v

\* data.get(c, "")
DataGet(row, c) == IF c \in DOMAIN row THEN CellText(row[c]) ELSE <<>>

RECURSIVE Fill(_, _, _)
\* for c in placeholders: filled = filled.replace(f"#{c}#", data.get(c, ""))
Fill(filled, phs, row) ==
    IF phs = <<>> THEN filled
    ELSE Fill(Replace(filled, <<Hash>> \o Head(phs) \o <<Hash>>, DataGet(row, Head(phs))),
              Tail(phs), row)

\* the loop of _process_row over the placeholders found once in the template
Render(tpl, row) ==
    CHOOSE filled \in {Fill(tpl, phs, row) : phs \in {Placeholders(tpl)}} : TRUE

\* ---------------------------------------------------------- chat service
ErrPrefix == <<"E", "r", "r", "e", "u", "r", " ", "A", "P", "I">>

\* str(e) of the exception the client raises
ApiError == <<"q">>

\* f"Erreur API : {e}"
ErrorText(e) == ErrPrefix \o <<" ", ":", " ">> \o e

\* what one call of the service may do: answer, answer with a text that
\* itself begins "Erreur API", or raise
Outcomes == {"ok", "odd", "raise"}

\* resp.choices[0].message.content for an answering call
Content(prompt, o) ==
    IF o = "ok" THEN prompt \o <<"!">> ELSE ErrPrefix \o <<"?", " ">>

\* C4 mutant: the except branch keeps the bare message, text = f"{e}"
CallTextBare(prompt, o) ==
    IF o = "raise" THEN ApiError ELSE Strip(Content(prompt, o))

\* the text call_chat binds after the try/except
CallText(prompt, o) ==
    IF o = "raise" THEN ErrorText(ApiError) ELSE Strip(Content(prompt, o))

\* status = "error" if resp.startswith("Erreur API") else "success"
Status(resp) == IF StartsWith(resp, ErrPrefix) THEN "error" ELSE "success"

\* C20 mutant: a thread for every row, whatever the pause
WorkersPerRow(rate) == NRows

\* workers = max(1, int(1 / rate_limit)) if rate_limit > 0 else 1
Workers(rate) ==
    IF rate > 0
    THEN (IF 10 \div rate > 1 THEN 10 \div rate ELSE 1)
    ELSE 1


\* ------------------------------------------------------- table, workbook
\* pd.read_excel(..., sheet_name=sht): the rows of the selected sheet
LoadSheet(sht) == [i \in Rows |-> SheetRow(sht, i)]

\* if output_col not in df.columns: df[output_col] = ""
WithOutput(frame) ==
    [i \in Rows |->
        IF output_col \in DOMAIN frame[i]
        THEN frame[i]
        ELSE frame[i] @@ (output_col :> StrCell(<<>>))]

\* list(df.columns)
DfColumns(sht, frame) ==
    IF \E i \in Rows : output_col \in DOMAIN frame[i]
    THEN Columns(sht) \o <<output_col>>
    ELSE Columns(sht)

\* the cells of a sheet of the uploaded file: header row, then the data rows
SheetCells(sht) ==
    <<[k \in 1 .. Len(Columns(sht)) |-> StrCell(Columns(sht)[k])]>>
        \o [r \in 1 .. NRows |->
                [k \in 1 .. Len(Columns(sht)) |-> SheetRow(sht, r - 1)[Columns(sht)[k]]]]

\* load_workbook(...): the sheets in file order
LoadWorkbook == [k \in 1 .. Len(SheetNames) |->
                    [title |-> SheetNames[k], cells |-> SheetCells(SheetNames[k])]]

\* dataframe_to_rows(df, index=False, header=True)
DataframeToRows(sht, frame) ==
    <<[k \in 1 .. Len(DfColumns(sht, frame)) |-> StrCell(DfColumns(sht, frame)[k])]>>
        \o [r \in 1 .. NRows |->
                [k \in 1 .. Len(DfColumns(sht, frame)) |->
                    frame[r - 1][DfColumns(sht, frame)[k]]]]

\* C12 mutant: the new sheet takes the place of the workbook's first sheet
ReplaceSheetFirst(book, sht, frame) ==
    <<[title |-> sht, cells |-> DataframeToRows(sht, frame)]>> \o Tail(book)

\* wb.remove(wb[sheet]); new_ws = wb.create_sheet(sheet, 0); new_ws.append(r) ...
ReplaceSheet(book, sht, frame) ==
    <<[title |-> sht, cells |-> DataframeToRows(sht, frame)]>>
        \o SelectSeq(book, LAMBDA w : w.title # sht)

\* ----------------------------------------------------------------- state
VARIABLES
    sheet,           \* the selected sheet name
    prompt_text,     \* st.session_state.prompt_text
    rate_limit,      \* st.session_state.rate_limit, in tenths of a second
    df,              \* the working table of the current script run
    wb,              \* st.session_state.wb
    prompt_cache,    \* get_prompt_cache(): prompt -> text, process-wide
    error_rows,      \* st.session_state.error_rows
    log_entries,     \* st.session_state.log_entries
    last_processed,  \* st.session_state.last_processed
    stop_flag,       \* st.session_state.stop_flag
    completed,       \* st.session_state.completed
    st_error,        \* the message of st.error, "" when none is shown
    to_process,      \* the indices of the job set
    futures,         \* row index -> the future submitted for it
    done,            \* results recorded by the running loop
    pc,              \* "idle" | "running" | "broken" (left the loop by break)
    runs,            \* runs started so far
    called,          \* history: rows whose job invoked the service in this run
    raised,          \* history: rows whose service call raised in this run
    after_stop,      \* history: rows whose job started while stop_flag was set
    last_status,     \* history: status of the last recorded result of each row
    said             \* history: <<prompt, text>> for every text call_chat computed

widgets == <<sheet, prompt_text, rate_limit>>
session == <<error_rows, log_entries, last_processed, stop_flag, completed>>
script  == <<to_process, futures, done, pc, runs>>
history == <<called, raised, after_stop, last_status, said>>
vars == <<widgets, df, wb, prompt_cache, session, st_error, script, history>>

\* get_prompt_cache(): return {}
EmptyCache == [p \in {} |-> <<>>]

NoFuture == [state |-> "none", index |-> NoneProcessed, resp |-> <<>>,
             status |-> "", filled |-> <<>>]

InSeq(x, s) == \E k \in 1 .. Len(s) : s[k] = x

Init ==
    /\ sheet \in {SheetNames[k] : k \in 1 .. Len(SheetNames)}
    /\ prompt_text = <<>>
    /\ rate_limit = DefaultRate
    /\ df = WithOutput(LoadSheet(sheet))
    /\ wb = LoadWorkbook
    /\ prompt_cache = EmptyCache
    /\ error_rows = <<>>
    /\ log_entries = <<>>
    /\ last_processed = NoneProcessed
    /\ stop_flag = FALSE
    /\ completed = FALSE
    /\ st_error = <<>>
    /\ to_process = <<>>
    /\ futures = [i \in Rows |-> NoFuture]
    /\ done = 0
    /\ pc = "idle"
    /\ runs = 0
    /\ called = {}
    /\ raised = {}
    /\ after_stop = {}
    /\ last_status = [i \in Rows |-> "none"]
    /\ said = {}


\* ------------------------------------------------- script runs (reruns)
\* st.error(f"Colonnes invalides : {', '.join(invalid)}")
InvalidMessage(invalid) ==
    <<"C", "o", "l", "o", "n", "n", "e", "s", " ", "i", "n", "v", "a", "l", "i", "d", "e", "s",
      " ", ":", " ">> \o Join(<<",", " ">>, invalid)

\* C8 mutant: the validation never stops the script
ValidAlways(tpl) == TRUE

\* the template passes the validation of the script run
Valid(tpl) == Invalid(tpl, Columns(sheet)) = <<>>

\* A script run in which no run button is pressed, from the sheet load to the
\* download preparation: st.stop() on an invalid template, else the result
\* column is prepared and, once a run has completed, the workbook re-exported.
Rerun(tpl) ==
    IF Valid(tpl)
    THEN /\ df' = WithOutput(LoadSheet(sheet))
         /\ st_error' = <<>>
         /\ wb' = IF completed THEN ReplaceSheet(wb, sheet, df') ELSE wb
    ELSE /\ df' = LoadSheet(sheet)
         /\ st_error' = InvalidMessage(Invalid(tpl, Columns(sheet)))
         /\ wb' = wb

\* if stop_btn: st.session_state.stop_flag = True
Stop ==
    /\ stop_flag' = TRUE
    /\ IF pc = "idle" THEN Rerun(prompt_text) ELSE UNCHANGED <<df, st_error, wb>>
    /\ UNCHANGED <<widgets, prompt_cache, error_rows, log_entries, last_processed,
                   completed, script, history>>

\* to_process = list(df.index)
FullIndices == [k \in 1 .. NRows |-> k - 1]

\* to_process = list(df.index[:5])
TestIndices == SubSeq(FullIndices, 1, IF NRows < TestRows THEN NRows ELSE TestRows)

\* exe.submit(_process_row, i, df.loc[i]) for i in to_process
Submit(tp) ==
    [i \in Rows |-> IF InSeq(i, tp) THEN [NoFuture EXCEPT !.state = "pending", !.index = i]
                    ELSE NoFuture]

\* A script run with a run button pressed, the text area holding t and the
\* pause input r.  Lines 222-232: the run resets the flag, the ledger and the
\* log, then submits one job per index.
StartRun(tp, t, r) ==
    /\ pc = "idle"
    /\ runs < MaxRuns
    /\ Valid(t)
    /\ tp # <<>>
    /\ prompt_text' = t
    /\ rate_limit' = r
    /\ df' = WithOutput(LoadSheet(sheet))
    /\ st_error' = <<>>
    /\ stop_flag' = FALSE
    /\ error_rows' = <<>>
    /\ log_entries' = <<>>
    /\ to_process' = tp
    /\ futures' = Submit(tp)
    /\ done' = 0
    /\ pc' = "running"
    /\ runs' = runs + 1
    /\ called' = {}
    /\ raised' = {}
    /\ after_stop' = {}
    /\ UNCHANGED <<sheet, wb, prompt_cache, last_processed, completed, last_status, said>>

\* "Lancer le fichier complet"
RunFull == \E t \in Templates, r \in RateChoices : StartRun(FullIndices, t, r)

\* "Test rapide (5 lignes)"
RunTest == \E t \in Templates, r \in RateChoices : StartRun(TestIndices, t, r)

\* a run button pressed while the template names an unknown column:
\* st.error(...); st.stop()
RunBlocked(t) ==
    /\ pc = "idle"
    /\ ~Valid(t)
    /\ prompt_text' = t
    /\ Rerun(t)
    /\ UNCHANGED <<sheet, rate_limit, prompt_cache, session, script, history>>


\* ------------------------------------------------------------ the workers
\* C14 mutant: the lookup is skipped, every job goes out to the service
CacheNeverHit(cache, prompt) == FALSE

\* if prompt in prompt_cache
CacheHit(cache, prompt) == prompt \in DOMAIN cache

\* prompt_cache[prompt] = text
CachePut(cache, prompt, text) ==
    [q \in (DOMAIN cache) \cup {prompt} |-> IF q = prompt THEN text ELSE cache[q]]

\* return i, resp, status, dur, filled
RowResult(i, resp, filled) ==
    [state |-> "finished", index |-> i, resp |-> resp, status |-> Status(resp),
     filled |-> filled]

Calling == {i \in Rows : futures[i].state = "calling"}

\* the pool takes the jobs in submission order
NextPending(i) ==
    \E k \in 1 .. Len(to_process) :
        /\ to_process[k] = i
        /\ futures[i].state = "pending"
        /\ \A j \in 1 .. (k - 1) : futures[to_process[j]].state # "pending"

\* A pool thread takes job i: _process_row renders the prompt and call_chat
\* looks it up; a hit returns the cached text, a miss goes out to the service.
WorkerStart(i) ==
    /\ pc \in {"running", "broken"}
    /\ NextPending(i)
    /\ Cardinality(Calling) < Workers(rate_limit)
    /\ LET filled == Render(prompt_text, df[i]) IN
        IF CacheHit(prompt_cache, filled)
        THEN /\ futures' = [futures EXCEPT ![i] = RowResult(i, prompt_cache[filled], filled)]
             /\ called' = called
        ELSE /\ futures' = [futures EXCEPT ![i].state = "calling", ![i].filled = filled]
             /\ called' = called \cup {i}
    /\ after_stop' = IF stop_flag THEN after_stop \cup {i} ELSE after_stop
    /\ UNCHANGED <<widgets, df, wb, prompt_cache, session, st_error, to_process, done, pc,
                   runs, raised, last_status, said>>

\* C16 mutant: the worker writes its answer into the table itself
WorkerReturnWrites(i, o) ==
    /\ futures[i].state = "calling"
    /\ LET filled == futures[i].filled
           text   == CallText(filled, o) IN
        /\ prompt_cache' = CachePut(prompt_cache, filled, text)
        /\ futures' = [futures EXCEPT ![i] = RowResult(i, text, filled)]
        /\ said' = said \cup {<<filled, text>>}
        /\ df' = [df EXCEPT ![i][output_col] = StrCell(text)]
    /\ raised' = IF o = "raise" THEN raised \cup {i} ELSE raised
    /\ UNCHANGED <<widgets, wb, session, st_error, to_process, done, pc, runs,
                   called, after_stop, last_status>>

\* The service call of job i answers or raises; call_chat stores the text in
\* the cache and _process_row returns.
WorkerReturn(i, o) ==
    /\ futures[i].state = "calling"
    /\ LET filled == futures[i].filled
           text   == CallText(filled, o) IN
        /\ prompt_cache' = CachePut(prompt_cache, filled, text)
        /\ futures' = [futures EXCEPT ![i] = RowResult(i, text, filled)]
        /\ said' = said \cup {<<filled, text>>}
    /\ raised' = IF o = "raise" THEN raised \cup {i} ELSE raised
    /\ UNCHANGED <<widgets, df, wb, session, st_error, to_process, done, pc, runs,
                   called, after_stop, last_status>>

\* --------------------------------------------------- the consuming loop
\* C9 mutant: the answer lands one row further down
WriteCellShifted(frame, i, resp) ==
    [frame EXCEPT ![(i + 1) % NRows][output_col] = StrCell(resp)]

\* df.at[i, output_col] = resp
WriteCell(frame, i, resp) == [frame EXCEPT ![i][output_col] = StrCell(resp)]

\* C17 mutant: the entry carries the index of the neighbouring row
LogEntryShifted(r) ==
    [index |-> (r.index + 1) % NRows, prompt |-> r.filled, status |-> r.status]

\* st.session_state.log_entries.append({...})
LogEntry(r) == [index |-> r.index, prompt |-> r.filled, status |-> r.status]

\* if status == "error": st.session_state.error_rows.append(i)
Ledger(ledger, r) == IF r.status = "error" THEN Append(ledger, r.index) ELSE ledger

\* as_completed yields the finished future f while the flag is clear: its
\* result is written to the table, the log and the ledger
Consume(f) ==
    /\ pc = "running"
    /\ futures[f].state = "finished"
    /\ ~stop_flag
    /\ LET r == futures[f] IN
        /\ df' = WriteCell(df, r.index, r.resp)
        /\ log_entries' = Append(log_entries, LogEntry(r))
        /\ error_rows' = Ledger(error_rows, r)
        /\ last_status' = [last_status EXCEPT ![r.index] = r.status]
    /\ done' = done + 1
    /\ futures' = [futures EXCEPT ![f].state = "consumed"]
    /\ UNCHANGED <<widgets, wb, prompt_cache, last_processed, stop_flag, completed, st_error,
                   to_process, pc, runs, called, raised, after_stop, said>>

\* as_completed yields a finished future while the flag is set:
\* st.warning("Traitement interrompu."); break
Break(f) ==
    /\ pc = "running"
    /\ futures[f].state = "finished"
    /\ stop_flag
    /\ pc' = "broken"
    /\ UNCHANGED <<widgets, df, wb, prompt_cache, session, st_error, to_process, futures,
                   done, runs, history>>

\* C13 mutant: the loop has no way out but the end of the result stream
RunEndNoBreak ==
    /\ pc = "running" /\ \A i \in Rows : futures[i].state \in {"none", "consumed"}
    /\ last_processed' = IF done > 0 THEN to_process[done] ELSE NoneProcessed
    /\ completed' = TRUE
    /\ wb' = ReplaceSheet(wb, sheet, df)
    /\ pc' = "idle"
    /\ futures' = [i \in Rows |-> NoFuture]
    /\ called' = {}
    /\ raised' = {}
    /\ after_stop' = {}
    /\ UNCHANGED <<widgets, df, prompt_cache, error_rows, log_entries, stop_flag, st_error,
                   to_process, done, runs, last_status, said>>

\* The loop is over (every future yielded, or break) and the executor's
\* shutdown has waited for every submitted job; lines 252-274 follow and the
\* script run ends, its futures with it.
RunEnd ==
    /\ \/ pc = "running" /\ \A i \in Rows : futures[i].state \in {"none", "consumed"}
       \/ pc = "broken" /\ \A i \in Rows : futures[i].state \notin {"pending", "calling"}
    /\ last_processed' = IF done > 0 THEN to_process[done] ELSE NoneProcessed
    /\ completed' = TRUE
    /\ wb' = ReplaceSheet(wb, sheet, df)
    /\ pc' = "idle"
    /\ futures' = [i \in Rows |-> NoFuture]
    /\ called' = {}
    /\ raised' = {}
    /\ after_stop' = {}
    /\ UNCHANGED <<widgets, df, prompt_cache, error_rows, log_entries, stop_flag, st_error,
                   to_process, done, runs, last_status, said>>

\* "Réessayer uniquement les erreurs", shown while error_rows is not empty
Retry ==
    /\ pc = "idle"
    /\ Valid(prompt_text)
    /\ error_rows # <<>>
    /\ to_process' = error_rows
    /\ error_rows' = <<>>
    /\ Rerun(prompt_text)
    /\ UNCHANGED <<widgets, prompt_cache, log_entries, last_processed, stop_flag, completed,
                   futures, done, pc, runs, history>>

Next ==
    \/ Stop
    \/ RunFull
    \/ RunTest
    \/ \E t \in Templates : RunBlocked(t)
    \/ \E i \in Rows : WorkerStart(i)
    \/ \E i \in Rows, o \in Outcomes : WorkerReturn(i, o)
    \/ \E f \in Rows : Consume(f)
    \/ \E f \in Rows : Break(f)
    \/ RunEnd
    \/ Retry

Spec == Init /\ [][Next]_vars

\* a step of a pool thread, of the as_completed loop or of the script thread
\* after the loop
Progress ==
    \/ \E i \in Rows : WorkerStart(i)
    \/ \E i \in Rows, o \in Outcomes : WorkerReturn(i, o)
    \/ \E f \in Rows : Consume(f)
    \/ \E f \in Rows : Break(f)
    \/ RunEnd

\* The threads of a run are scheduled and every service call returns or
\* raises: a run does not stay for ever where one of its threads can move.
FairSpec == Spec /\ WF_vars(Progress)


\* =============================================================== claims
Returned(i) == futures[i].state \in {"finished", "consumed"}

\* the run leaves the executor block and the script goes on to line 252
RunEnds == pc # "idle" /\ pc' = "idle"

\* the prompt row i renders to under the template of the current run
PromptOf(i) == Render(prompt_text, SheetRow(sheet, i))

Logged(i) == \E k \in 1 .. Len(log_entries) : log_entries[k].index = i

LedgerSet == {error_rows[k] : k \in 1 .. Len(error_rows)}

\* C1: within a run, two jobs with the identical rendered prompt never both
\* invoke the service, and the texts the two jobs return are equal.
C1_OneCallPerPrompt ==
    \A i, j \in Rows :
        (i # j /\ futures[i].state # "none" /\ futures[j].state # "none"
             /\ futures[i].filled = futures[j].filled) =>
            /\ ~(i \in called /\ j \in called)
            /\ (Returned(i) /\ Returned(j)) => futures[i].resp = futures[j].resp

\* C2: while the stop flag is set, no job that has not started yet starts.
C2_NoStartAfterStop ==
    [][stop_flag =>
          \A i \in Rows : futures[i].state = "pending" => futures'[i].state = "pending"]_vars

\* C3: when the run ends, every job that started before the stop flag was set
\* has its answer in the row's output cell and an entry in the log.
C3_DispatchedIsRecorded ==
    [][RunEnds =>
          \A i \in Rows :
              (futures[i].state \notin {"none", "pending"} /\ i \notin after_stop) =>
                  /\ futures[i].state = "consumed"
                  /\ df[i][output_col] = StrCell(futures[i].resp)
                  /\ Logged(i)]_vars


\* C4: a raising service call becomes an "error" result carrying the message;
\* once consumed it is in the row's cell, the log and the ledger; the loop is
\* left early only by the stop flag, never by a failure; and a run that leaves
\* the loop normally has written every row of the job set with a text the
\* service gave for that row's own prompt.
C4_RowIsolation ==
    [][/\ \A i \in raised :
             Returned(i) =>
                 /\ futures[i].status = "error"
                 /\ futures[i].resp = ErrorText(ApiError)
       /\ \A i \in raised :
             futures[i].state = "consumed" =>
                 /\ df[i][output_col] = StrCell(ErrorText(ApiError))
                 /\ i \in LedgerSet
                 /\ Logged(i)
       /\ pc = "broken" => stop_flag
       /\ (pc = "running" /\ pc' = "idle") =>
             \A k \in 1 .. Len(to_process) :
                 /\ futures[to_process[k]].state = "consumed"
                 /\ <<PromptOf(to_process[k]), df[to_process[k]][output_col].v>> \in said]_vars

\* C4 witness: one row's call raised and was recorded, another row of the same
\* run was recorded with a successful answer
C4_Witness ==
    /\ pc = "running"
    /\ \E i \in raised, j \in Rows \ raised :
          /\ futures[i].state = "consumed"
          /\ futures[j].state = "consumed"
          /\ j \in called
          /\ futures[j].status = "success"

\* C5: the ledger holds exactly the rows whose last recorded result is an error.
C5_LedgerIsLastErrors ==
    LedgerSet = {i \in Rows : last_status[i] = "error"}

\* C6: retry-failed submits a job for exactly the rows of the ledger, and the
\* cells of rows whose last result was a success keep their value.
C6_RetrySubmitsLedger ==
    [][Retry =>
          /\ {i \in Rows : futures'[i].state = "pending"} = LedgerSet
          /\ \A i \in Rows :
                last_status[i] = "success" => df'[i][output_col] = df[i][output_col]]_vars

\* C7: when the ledger is {r} and the cell of r holds the error message, after
\* retry-failed the ledger is empty and the cell of r holds an answer of the
\* service for the prompt of r.
C7_RetryRepairsRow ==
    [][(Retry /\ Len(error_rows) = 1
              /\ df[error_rows[1]][output_col] = StrCell(ErrorText(ApiError))) =>
          /\ error_rows' = <<>>
          /\ df'[error_rows[1]][output_col].v
                \in {CallText(PromptOf(error_rows[1]), o) : o \in {"ok", "odd"}}]_vars

Contains(s, sub) ==
    \E k \in 1 .. (Len(s) - Len(sub) + 1) : SubSeq(s, k, k + Len(sub) - 1) = sub

\* the placeholders of the template that are no column of the active sheet
Unknown(tpl) ==
    {Placeholders(tpl)[k] : k \in 1 .. Len(Placeholders(tpl))}
        \ {Columns(sheet)[k] : k \in 1 .. Len(Columns(sheet))}

\* C8: a script run whose template has a placeholder that is no column starts
\* nothing: no job is submitted, the service is not called, the log, the
\* ledger and the cache stay as they are, the table is the loaded sheet with no
\* result written, and the message names every unknown placeholder.
C8_InvalidTemplateBlocks ==
    [][(pc = "idle" /\ Unknown(prompt_text') # {}) =>
          /\ pc' = "idle"
          /\ runs' = runs
          /\ futures' = futures
          /\ called' = called
          /\ said' = said
          /\ log_entries' = log_entries
          /\ error_rows' = error_rows
          /\ prompt_cache' = prompt_cache
          /\ wb' = wb
          /\ df' = LoadSheet(sheet)
          /\ \A c \in Unknown(prompt_text') : Contains(st_error', c)]_vars

\* C8 witness: a blocked request after a run that left a log, a ledger and a
\* cache behind
C8_Witness ==
    /\ pc = "idle"
    /\ Cardinality(Unknown(prompt_text)) = 2
    /\ st_error # <<>>
    /\ log_entries # <<>>
    /\ error_rows # <<>>
    /\ DOMAIN prompt_cache # {}

C10_ExactlyOnceOrNever ==
    [][RunEnds =>
          /\ \A k, l \in 1 .. Len(log_entries) :
                log_entries[k].index = log_entries[l].index => k = l
          /\ \A i \in called : futures[i].state = "consumed" /\ Logged(i)
          /\ ~stop_flag => \A k \in 1 .. Len(to_process) : Logged(to_process[k])]_vars


\* C11: a run is marked completed only when every job of its job set has been
\* recorded; a run left by the stop is not marked completed.
C11_CompletedMeansAllRecorded ==
    [][RunEnds =>
          (completed' =>
              \A k \in 1 .. Len(to_process) : futures[to_process[k]].state = "consumed")]_vars

\* the sheets of a workbook other than the active one, in workbook order
OtherSheets(book) == SelectSeq(book, LAMBDA w : w.title # sheet)

C14_CacheHitSkipsService ==
    [][\A i \in Rows :
          (/\ futures[i].state = "pending"
           /\ futures'[i].state # "pending"
           /\ PromptOf(i) \in DOMAIN prompt_cache) =>
              /\ futures'[i].state = "finished"
              /\ futures'[i].resp = prompt_cache[PromptOf(i)]
              /\ called' = called
              /\ said' = said
              /\ prompt_cache' = prompt_cache]_vars

\* C14 witness: a job of the running run has returned without a service call
C14_Witness ==
    /\ pc = "running"
    /\ \E i \in Rows :
          /\ futures[i].state = "finished"
          /\ i \notin called
          /\ futures[i].resp = prompt_cache[futures[i].filled]

\* C15: the workbook holds the sheet names of the uploaded file in their order.
C15_SheetOrderKept ==
    [k \in 1 .. Len(wb) |-> wb[k].title] = SheetNames

\* a pool thread moves job i: it takes it from the queue or returns from it
WorkerStep(i) ==
    /\ futures[i].state \in {"pending", "calling"}
    /\ futures'[i].state \in {"calling", "finished"}
    /\ futures'[i].state # futures[i].state

\* the consuming loop records job i
ConsumerStep(i) == futures[i].state = "finished" /\ futures'[i].state = "consumed"

\* C16: a step of a pool thread leaves the table, the log and the ledger as
\* they are; during a run they change only in a step of the consuming loop,
\* and the cache changes only in a step of a pool thread.
C16_SingleWriter ==
    [][/\ (\E i \in Rows : WorkerStep(i)) => UNCHANGED <<df, log_entries, error_rows>>
       /\ (pc # "idle" /\ <<df, log_entries, error_rows>>' # <<df, log_entries, error_rows>>) =>
             \E i \in Rows : ConsumerStep(i)
       /\ prompt_cache' # prompt_cache => \E i \in Rows : WorkerStep(i)]_vars

\* C16 witness: the loop has recorded one row while a pool thread is in the
\* service call of another and the cache holds a text
C16_Witness ==
    /\ pc = "running"
    /\ \E i, j \in Rows : futures[i].state = "consumed" /\ futures[j].state = "calling"
    /\ DOMAIN prompt_cache # {}


\* C13: every started run ends, whatever fails, whenever the stop is asked
\* and whatever prompts are equal, when the pool threads and the loop are
\* scheduled and every service call returns or raises.
C13_RunEnds ==
    (pc # "idle") ~> (pc = "idle")

\* C13 witness: a run with a failed row has been left by the stop with a job
\* unrecorded, and has ended
C13_Witness ==
    /\ pc = "idle"
    /\ runs > 0
    /\ stop_flag
    /\ error_rows # <<>>
    /\ done < Len(to_process)
    /\ last_processed = to_process[done]


\* the number of log entries of row i
LogCount(i) == Len(SelectSeq(log_entries, LAMBDA e : e.index = i))

\* the output cell of row i holds a result
Written(i) == df[i][output_col] # StrCell(<<>>)

\* C17: at every moment of a run the log has one entry for each row whose
\* output cell has been written and none for any other row, a row left
\* unwritten is in neither the log nor the ledger, and a starting run begins
\* with the log and the ledger empty.
C17_LogMatchesTable ==
    [][/\ pc' # "idle" =>
             \A i \in Rows :
                 /\ LogCount(i)' = IF Written(i)' THEN 1 ELSE 0
                 /\ ~Written(i)' => i \notin LedgerSet'
       /\ (pc = "idle" /\ pc' # "idle") => (log_entries' = <<>> /\ error_rows' = <<>>)]_vars

\* C17 witness: the second run has been left by the stop with one row written
\* and logged and one row returned but unwritten, a row the first run recorded
C17_Witness ==
    /\ pc = "broken"
    /\ runs = 2
    /\ \E i, j \in Rows :
          /\ Written(i) /\ LogCount(i) = 1
          /\ futures[j].state = "finished"
          /\ ~Written(j) /\ LogCount(j) = 0
          /\ last_status[j] = "error"


\* C18: a returned job whose prompt went out to the service has status error
\* exactly when that call raised, whatever text an answering call returned.
C18_ErrorIffCallFailed ==
    \A i \in called :
        Returned(i) => (futures[i].status = "error" <=> i \in raised)

RECURSIVE RenderLiteralFrom(_, _, _)
\* one pass over the template from position p: each token #c# is replaced by
\* the row's text for c, and the inserted text is not read again
RenderLiteralFrom(tpl, p, row) ==
    IF p > Len(tpl) THEN <<>>
    ELSE IF /\ tpl[p] = Hash
            /\ p + 1 <= Len(tpl)
            /\ tpl[p + 1] # Hash
            /\ NextHash(tpl, p + 1) # 0
         THEN DataGet(row, SubSeq(tpl, p + 1, NextHash(tpl, p + 1) - 1))
                  \o RenderLiteralFrom(tpl, NextHash(tpl, p + 1) + 1, row)
         ELSE <<tpl[p]>> \o RenderLiteralFrom(tpl, p + 1, row)

\* C19: the prompt of a started job is the template with each placeholder
\* token replaced by the row's value, the values inserted literally: a value
\* that holds placeholder-like text is not substituted again.
C19_RenderIsLiteral ==
    \A i \in Rows :
        futures[i].state \in {"calling", "finished", "consumed"} =>
            futures[i].filled = RenderLiteralFrom(prompt_text, 1, SheetRow(sheet, i))

\* max_workers of the pool of the current run
PoolSize == IF rate_limit > 0 /\ 10 \div rate_limit > 1 THEN 10 \div rate_limit ELSE 1

\* C20: at every moment of a run the number of service calls in flight is at
\* most the size of the pool.
C20_CallsWithinPool ==
    Cardinality({i \in Rows : futures[i].state = "calling"}) <= PoolSize

\* C20 witness: the pool is full and a submitted job waits for a thread
C20_Witness ==
    /\ pc = "running"
    /\ Cardinality({i \in Rows : futures[i].state = "calling"}) = PoolSize
    /\ \E j \in Rows : futures[j].state = "pending"

====
